---- MODULE Spec2Model ----
(***************************************************************************)
(* State-machine model of the SpO2 / heart-rate export of                  *)
(* convert_fitbit.py: align_spo2_data (session segmentation, series        *)
(* merge, heart-rate post-filter), divide_data_to_viatom_chunks (4-second  *)
(* forward-fill record synthesis, 4095-record chunks) and the write loop   *)
(* of export_spo2_as_viatom, driven by the __main__ block.                 *)
(*                                                                         *)
(* Timestamps are whole seconds (both input formats have a resolution of   *)
(* one second) of local wall-clock time: the readers yield datetimes that  *)
(* share one tzinfo, which Python compares and subtracts on their          *)
(* wall-clock fields.  A Python list is a sequence, a Python index k is    *)
(* k + 1.                                                                  *)
(* None is the empty sequence and a present value v is <<v>>, so an        *)
(* optional value can be compared with any other optional value.           *)
(***************************************************************************)
EXTENDS Integers, Sequences, FiniteSets, TLC

VARIABLES
    csv_files,           \* input: the SpO2 files, each a sequence of rows <<timestamp, raw value>>
    json_files,          \* input: the heart-rate files, each a sequence of entries <<timestamp, bpm>>
    pc,                  \* position of the run
    error,               \* None, or <<name of the exception raised>>
    ci,                  \* align_spo2_data: samples of the read_csv stream consumed so far
    ji,                  \* align_spo2_data: entries of the read_json stream consumed so far
    sessions,            \* align_spo2_data: sessions, each <<start>> or <<start, end>>
    data,                \* align_spo2_data: timestamp -> <<SpO2 or None, bpm or None>>
    prev_timestamp,      \* align_spo2_data: local, None while unassigned
    last_bpm_timestamp,  \* align_spo2_data: local
    ret_sessions,        \* the sessions returned by align_spo2_data
    sorted_data,         \* divide_data_to_viatom_chunks: sorted(data.items())
    chunks,              \* divide_data_to_viatom_chunks: flushed chunks
    chunk,               \* divide_data_to_viatom_chunks: active chunk
    si,                  \* divide_data_to_viatom_chunks: sessions iterated so far
    i,                   \* divide_data_to_viatom_chunks: index of the for-i loop
    last_timestamp,      \* divide_data_to_viatom_chunks: local
    timestamp,           \* divide_data_to_viatom_chunks: local
    end_timestamp,       \* divide_data_to_viatom_chunks: local
    spo2,                \* divide_data_to_viatom_chunks: running SpO2, None while unassigned
    bpm,                 \* divide_data_to_viatom_chunks: running bpm, None while unassigned
    records,             \* divide_data_to_viatom_chunks: local counter
    wi,                  \* export_spo2_as_viatom: chunks handed to write_to_viatom_file so far
    files,               \* export directory: file name -> the bytes of the file
    sleep_export_ran     \* __main__: export_sleep_phases_as_dreem was called

vars == <<csv_files, json_files, pc, error, ci, ji, sessions, data, prev_timestamp,
          last_bpm_timestamp, ret_sessions, sorted_data, chunks, chunk, si, i,
          last_timestamp, timestamp, end_timestamp, spo2, bpm, records, wi, files,
          sleep_export_ran>>

alignVars == <<ci, ji, sessions, data, prev_timestamp, last_bpm_timestamp, ret_sessions>>

divideVars == <<sorted_data, chunks, chunk, si, i, last_timestamp, timestamp,
                end_timestamp, spo2, bpm, records>>

inputVars == <<csv_files, json_files>>

(***************************************************************************)
(* Program constants                                                       *)
(***************************************************************************)
GapSeconds == 300         \* timedelta(minutes=5)

RecordSeconds == 4        \* timedelta(seconds=4)

MaxChunkRecords == 4095   \* len(chunk) >= 4095

MinSpo2 == 61             \* read_csv: value < 61 is skipped

FullSpo2 == 100           \* read_csv: value == 100 ...

CappedSpo2 == 99          \* ... is stored as 99

(***************************************************************************)
(* Bounds of the model                                                     *)
(***************************************************************************)
MaxCsvRows == 3

MaxJsonEntries == 2

CsvTimes == {0, 300, 600, 900}

RawValues == {60, 97}

JsonTimes == {0, 302, 600, 1001}

BpmValues == {64}

MaxWriterRecords == 2

EpochYear == 2024

EpochMonth == 1

None == <<>>

Some(v) == <<v>>

Last(s) == s[Len(s)]


ReplaceLast(s, x) == [s EXCEPT ![Len(s)] = x]

(***************************************************************************)
(* Sample readers.  A row carries the local timestamp and the value        *)
(* round(float(row["value"])) the reader computes from the text.           *)
(***************************************************************************)
\* read_csv without the test of lines 104-105
ReadCsvKeepsAll(value) == TRUE

ReadCsvKeeps(value) == ~(value < MinSpo2)

ReadCsvValue(value) == IF value = FullSpo2 THEN CappedSpo2 ELSE value

read_csv(file) ==
    LET kept == SelectSeq(file, LAMBDA row : ReadCsvKeeps(row[2]))
    IN  [k \in 1..Len(kept) |-> <<kept[k][1], ReadCsvValue(kept[k][2])>>]

read_json(file) == [k \in 1..Len(file) |-> <<file[k][1], file[k][2]>>]

\* for file_name in csv_files: for timestamp, value in read_csv(file_name, timezone)
RECURSIVE CsvStream(_)
CsvStream(fs) ==
    IF fs = <<>> THEN <<>> ELSE read_csv(Head(fs)) \o CsvStream(Tail(fs))

\* for file_name in json_files: for timestamp, value in read_json(file_name, timezone)
RECURSIVE JsonStream(_)
JsonStream(fs) ==
    IF fs = <<>> THEN <<>> ELSE read_json(Head(fs)) \o JsonStream(Tail(fs))

(***************************************************************************)
(* align_spo2_data                                                         *)
(***************************************************************************)
\* a write that replaces the whole entry of the instant
SetSlotFresh(d, t, k, v) ==
    [u \in DOMAIN d \cup {t} |->
        IF u = t THEN (IF k = 1 THEN <<Some(v), None>> ELSE <<None, Some(v)>>) ELSE d[u]]

\* a plain dict that is only written at the keys it already has
SetSlotKnownOnly(d, t, k, v) ==
    IF t \in DOMAIN d
    THEN [d EXCEPT ![t] = [@ EXCEPT ![k] = Some(v)]]
    ELSE d

\* data[timestamp][k - 1] = value on a defaultdict(lambda: [None, None])
SetSlot(d, t, k, v) ==
    IF t \in DOMAIN d
    THEN [d EXCEPT ![t] = [@ EXCEPT ![k] = Some(v)]]
    ELSE d @@ (t :> (IF k = 1 THEN <<Some(v), None>> ELSE <<None, Some(v)>>))

\* a variant of GapExceeded with the threshold doubled
GapExceededDoubled(ts, prev) == ts - prev > 2 * GapSeconds

\* timestamp - prev_timestamp > timedelta(minutes=5)
GapExceeded(ts, prev) == ts - prev > GapSeconds

\* prev_timestamp = sessions[-1][0]
SessionPrev(ss) == Last(ss)[1]

\* a variant of CloseAndOpen that closes the session with the new sample's timestamp
CloseAndOpenAtNew(ss, prev, ts) == Append(ReplaceLast(ss, Append(Last(ss), ts)), <<ts>>)

\* sessions[-1].append(prev_timestamp); sessions.append([timestamp])
CloseAndOpen(ss, prev, ts) == Append(ReplaceLast(ss, Append(Last(ss), prev)), <<ts>>)

\* the body of the loop over the saturation samples, on the session list
Segment(ss, ts) ==
    IF Len(ss) = 0
    THEN Append(ss, <<ts>>)
    ELSE IF GapExceeded(ts, SessionPrev(ss))
         THEN CloseAndOpen(ss, SessionPrev(ss), ts)
         ELSE ss

\* if len(sessions[-1]) == 1: sessions[-1].append(prev_timestamp)
CloseLast(ss, prev) ==
    IF Len(Last(ss)) = 1 THEN ReplaceLast(ss, Append(Last(ss), prev)) ELSE ss

\* a variant of Covered that also keeps a session ending at the last heart-rate timestamp
CoveredOrEqual(session, last_bpm) == session[2] <= last_bpm

\* session[1] < last_bpm_timestamp
Covered(session, last_bpm) == session[2] < last_bpm

FilterSessions(ss, last_bpm) == SelectSeq(ss, LAMBDA s : Covered(s, last_bpm))

Raise(name) ==
    /\ error' = Some(name)
    /\ pc' = "raised"

ExportStart ==
    /\ pc = "start"
    /\ IF Len(csv_files) = 0 \/ Len(json_files) = 0
       THEN Raise("FileNotFoundError")
       ELSE pc' = "read_csv" /\ error' = error
    /\ UNCHANGED <<inputVars, alignVars, divideVars, wi, files, sleep_export_ran>>

AlignReadCsv ==
    /\ pc = "read_csv"
    /\ ci < Len(CsvStream(csv_files))
    /\ LET sample == CsvStream(csv_files)[ci + 1]
       IN  /\ sessions' = Segment(sessions, sample[1])
           /\ data' = SetSlot(data, sample[1], 1, sample[2])
           /\ prev_timestamp' = Some(sample[1])
    /\ ci' = ci + 1
    /\ UNCHANGED <<inputVars, pc, error, ji, last_bpm_timestamp, ret_sessions,
                   divideVars, wi, files, sleep_export_ran>>

AlignAfterCsv ==
    /\ pc = "read_csv"
    /\ ci = Len(CsvStream(csv_files))
    /\ IF Len(sessions) = 0
       THEN Raise("FileNotFoundError") /\ UNCHANGED sessions
       ELSE /\ sessions' = CloseLast(sessions, prev_timestamp[1])
            /\ pc' = "read_json"
            /\ error' = error
    /\ last_bpm_timestamp' = None
    /\ UNCHANGED <<inputVars, ci, ji, data, prev_timestamp, ret_sessions,
                   divideVars, wi, files, sleep_export_ran>>

AlignReadJson ==
    /\ pc = "read_json"
    /\ ji < Len(JsonStream(json_files))
    /\ LET entry == JsonStream(json_files)[ji + 1]
       IN  /\ data' = SetSlot(data, entry[1], 2, entry[2])
           /\ last_bpm_timestamp' = Some(entry[1])
    /\ ji' = ji + 1
    /\ UNCHANGED <<inputVars, pc, error, ci, sessions, prev_timestamp, ret_sessions,
                   divideVars, wi, files, sleep_export_ran>>

AlignReturn ==
    /\ pc = "read_json"
    /\ ji = Len(JsonStream(json_files))
    /\ IF last_bpm_timestamp = None
       THEN Raise("FileNotFoundError") /\ UNCHANGED ret_sessions
       ELSE /\ ret_sessions' = FilterSessions(sessions, last_bpm_timestamp[1])
            /\ pc' = "divide"
            /\ error' = error
    /\ UNCHANGED <<inputVars, ci, ji, sessions, data, prev_timestamp, last_bpm_timestamp,
                   divideVars, wi, files, sleep_export_ran>>

(***************************************************************************)
(* divide_data_to_viatom_chunks                                            *)
(***************************************************************************)
MinKey(S) == CHOOSE t \in S : \A u \in S : t <= u

\* sorted(data.items()): the keys are distinct, so the order is the order of the keys
RECURSIVE SortedKeys(_)
SortedKeys(S) ==
    IF S = {}
    THEN <<>>
    ELSE CHOOSE keys \in {<<m>> \o SortedKeys(S \ {m}) : m \in {MinKey(S)}} : TRUE

SortedItems(d) ==
    LET keys == SortedKeys(DOMAIN d)
    IN  [k \in 1..Len(keys) |-> <<keys[k], d[keys[k]]>>]

\* the session the for-session loop is at
CurrentSession == ret_sessions[si]

\* timestamp < session[0] or timestamp > session[1]
OutsideSession(ts, session) == ts < session[1] \/ ts > session[2]

\* a variant of ChunkFull that lets the chunk grow one record past the cap
ChunkFullLate(c) == Len(c) > MaxChunkRecords

\* a variant of ChunkFull that flushes one record before the cap
ChunkFullEarly(c) == Len(c) >= MaxChunkRecords - 1

\* len(chunk) >= 4095
ChunkFull(c) == Len(c) >= MaxChunkRecords

\* a variant of NextRecordTime that advances by one second more
NextRecordTimeSkewed(ts) == ts + RecordSeconds + 1

\* timestamp += timedelta(seconds=4)
NextRecordTime(ts) == ts + RecordSeconds

\* if chunk: chunks.append(chunk)
FlushPartial(cs, c) == IF c # <<>> THEN Append(cs, c) ELSE cs

DivideStart ==
    /\ pc = "divide"
    /\ sorted_data' = SortedItems(data)
    /\ chunks' = <<>>
    /\ chunk' = <<>>
    /\ si' = 0
    /\ pc' = "for_session"
    /\ UNCHANGED <<inputVars, error, alignVars, i, last_timestamp, timestamp,
                   end_timestamp, spo2, bpm, records, wi, files, sleep_export_ran>>

\* for session in sessions: last_timestamp = None ... / after the loop: the last flush, return
DivideForSession ==
    /\ pc = "for_session"
    /\ IF si < Len(ret_sessions)
       THEN /\ si' = si + 1
            /\ last_timestamp' = None
            /\ i' = 0
            /\ pc' = "for_i"
            /\ UNCHANGED <<chunks, chunk>>
       ELSE /\ chunks' = FlushPartial(chunks, chunk)
            /\ chunk' = chunk
            /\ pc' = "write"
            /\ UNCHANGED <<si, last_timestamp, i>>
    /\ UNCHANGED <<inputVars, error, alignVars, sorted_data, timestamp, end_timestamp,
                   spo2, bpm, records, wi, files, sleep_export_ran>>

\* a running value that an absent slot clears
RunningForgetful(value, current) == value

\* a running value that keeps the first sample it was given
RunningFirst(value, current) == IF current # None THEN current ELSE value

\* lines 170-173: a slot that holds a sample replaces the running value
Running(value, current) == IF value # None THEN value ELSE current

\* the end of a session without lines 185-187: the active chunk goes on
SessionEndKeep(cs, c) == <<cs, c>>

\* lines 185-187: the chunks and the active chunk after if chunk: append, chunk = []
SessionEnd(cs, c) == <<FlushPartial(cs, c), <<>>>>

\* the locals the while loop reads and writes
LoopState(cs, c, ts, n) == [chunks |-> cs, chunk |-> c, timestamp |-> ts, records |-> n]

\* while timestamp < end_timestamp
WhileCond(st, e) == st.timestamp < e

\* the body of the while loop, lines 178-183
WhileBody(st, sp, bp) ==
    LET full == ChunkFull(st.chunk)
    IN  LoopState(IF full THEN Append(st.chunks, st.chunk) ELSE st.chunks,
                  Append(IF full THEN <<>> ELSE st.chunk, <<st.timestamp, sp, bp>>),
                  NextRecordTime(st.timestamp),
                  st.records + 1)

\* The while loop run from st: the body is applied, one iteration after the other, for
\* as long as the condition holds.  The iterations are split in two halves to keep the
\* evaluation shallow; fuel is only an upper bound on their number.  Each half and its
\* fuel are bound as values, so that neither is evaluated again where it is used.
RECURSIVE WhileLoop(_, _, _, _, _)
WhileLoop(st, e, sp, bp, fuel) ==
    IF ~WhileCond(st, e) \/ fuel = 0
    THEN st
    ELSE IF fuel = 1
         THEN WhileBody(st, sp, bp)
         ELSE CHOOSE last \in
                  {WhileLoop(half[1], e, sp, bp, half[2]) :
                       half \in {<<WhileLoop(st, e, sp, bp, h), fuel - h>> :
                                     h \in {fuel \div 2}}} : TRUE

\* every iteration moves the timestamp at least one second towards end_timestamp
Fuel(ts, e) == IF ts < e THEN e - ts ELSE 0

\* for i in range(len(sorted_data) - 1): lines 164-184 / after the loop: the session's flush
DivideForI ==
    /\ pc = "for_i"
    /\ IF i < Len(sorted_data) - 1
       THEN LET values == sorted_data[i + 1][2]
                ts == IF last_timestamp = None
                      THEN sorted_data[i + 1][1]
                      ELSE last_timestamp[1]
                e == sorted_data[i + 2][1]
                sp == Running(values[1], spo2)
                bp == Running(values[2], bpm)
            IN  /\ end_timestamp' = e
                /\ spo2' = sp
                /\ bpm' = bp
                /\ IF OutsideSession(ts, CurrentSession)
                   THEN \* continue
                        /\ timestamp' = ts
                        /\ i' = i + 1
                        /\ UNCHANGED <<pc, error, chunks, chunk, records, last_timestamp>>
                   ELSE IF ts < e /\ (sp = None \/ bp = None)
                        THEN \* line 181 reads a local no sample has assigned
                             /\ Raise("UnboundLocalError")
                             /\ timestamp' = ts
                             /\ records' = 0
                             /\ UNCHANGED <<i, chunks, chunk, last_timestamp>>
                        ELSE \E st \in {WhileLoop(LoopState(chunks, chunk, ts, 0), e,
                                                  IF sp = None THEN sp ELSE sp[1],
                                                  IF bp = None THEN bp ELSE bp[1],
                                                  Fuel(ts, e))} :
                                 IF WhileCond(st, e)
                                 THEN \* the loop does not come to its end: no next step
                                      UNCHANGED <<pc, error, chunks, chunk, timestamp,
                                                  records, last_timestamp, i>>
                                 ELSE /\ chunks' = st.chunks
                                      /\ chunk' = st.chunk
                                      /\ timestamp' = st.timestamp
                                      /\ records' = st.records
                                      /\ last_timestamp' = Some(st.timestamp)
                                      /\ i' = i + 1
                                      /\ UNCHANGED <<pc, error>>
       ELSE /\ chunks' = SessionEnd(chunks, chunk)[1]
            /\ chunk' = SessionEnd(chunks, chunk)[2]
            /\ pc' = "for_session"
            /\ UNCHANGED <<error, i, last_timestamp, timestamp, end_timestamp, spo2, bpm,
                           records>>
    /\ UNCHANGED <<inputVars, alignVars, sorted_data, si, wi, files, sleep_export_ran>>

(***************************************************************************)
(* export_spo2_as_viatom: for chunk in chunks: write_to_viatom_file        *)
(***************************************************************************)
(***************************************************************************)
(* write_to_viatom_file.  A file is the sequence of its bytes.  Second 0   *)
(* is 00:00:00 on the first day of month EpochMonth of year EpochYear, and *)
(* the timestamps of a run stay within that month.                         *)
(***************************************************************************)
Year(t) == EpochYear + 0 * t

Month(t) == EpochMonth + 0 * t

Day(t) == 1 + t \div 86400

Hour(t) == (t % 86400) \div 3600

Minute(t) == (t % 3600) \div 60

Second(t) == t % 60

\* a file named by strftime("%Y%m%d") only
FileNameByDay(c) == <<Year(c[1][1]), Month(c[1][1]), Day(c[1][1])>>

\* "{}.bin".format(data[0][0].strftime("%Y%m%d%H%M%S")): the six fields of the name
FileName(c) ==
    <<Year(c[1][1]), Month(c[1][1]), Day(c[1][1]),
      Hour(c[1][1]), Minute(c[1][1]), Second(c[1][1])>>

RECURSIVE Pow256(_)
Pow256(k) == IF k = 0 THEN 1 ELSE 256 * Pow256(k - 1)

\* struct.pack("<B" / "<H" / "<I", v) accepts v when it fits n unsigned bytes
Packs(v, n) == 0 <= v /\ v < Pow256(n)

\* the n bytes of v, least significant first
LittleEndian(v, n) == [k \in 1..n |-> (v \div Pow256(k - 1)) % 256]

Zeros(n) == [k \in 1..n |-> 0]

\* lines 201-217
Header(c) ==
    <<5, 0>>
    \o LittleEndian(Year(c[1][1]), 2)
    \o <<Month(c[1][1]), Day(c[1][1]), Hour(c[1][1]), Minute(c[1][1]), Second(c[1][1])>>
    \o LittleEndian(Len(c) * 5 + 40, 4)
    \o LittleEndian(Len(c) * 4, 2)
    \o Zeros(25)

\* the test of line 221 with < for <=
TooLowStrict(value) == value < 61

\* if record[1] <= 61
TooLow(value) == value <= 61

\* if record[1] > 99
TooHigh(value) == value > 99

\* the first byte written for a record, lines 221-231
Spo2Byte(value) == IF TooLow(value) THEN 255 ELSE IF TooHigh(value) THEN 99 ELSE value

\* the five bytes of a record whose heart rate packs, lines 221-233
RecordBytes(r) ==
    IF TooLow(r[2])
    THEN <<Spo2Byte(r[2]), r[3], 255, 0, 0>>
    ELSE <<Spo2Byte(r[2]), r[3], 0, 0, 0>>

\* struct.pack("<B", record[2]) raises struct.error
RecordFails(r) == ~Packs(r[3], 1)

\* the records written in full: all of them, or those before the first that fails
WrittenRecords(c) ==
    LET failing == {k \in 1..Len(c) : RecordFails(c[k])}
    IN  IF failing = {} THEN Len(c)
        ELSE (CHOOSE k \in failing : \A u \in failing : k <= u) - 1

\* the bytes in the file when write_to_viatom_file returns or raises in the loop:
\* the header, the records written in full and, of a record that fails, its first byte
FileBytes(c) ==
    LET n == WrittenRecords(c)
    IN  Header(c)
        \o [k \in 1..(5 * n) |-> RecordBytes(c[((k - 1) \div 5) + 1])[((k - 1) % 5) + 1]]
        \o (IF n < Len(c) THEN <<Spo2Byte(c[n + 1][2])>> ELSE <<>>)

\* open(args.export_path / bin_file, "wb") and the writes: the file is created or replaced
PutFile(fs, name, bytes) ==
    [n \in DOMAIN fs \cup {name} |-> IF n = name THEN bytes ELSE fs[n]]

\* the test of lines 194-197 made after open(..., "wb"): the file is created or emptied
RejectedAfterOpen(fs, c) == PutFile(fs, FileName(c), <<>>)

\* lines 194-197 come before line 199: the export directory when the call raises
Rejected(fs, c) == fs

WriteChunk ==
    /\ pc = "write"
    /\ IF wi < Len(chunks)
       THEN LET c == chunks[wi + 1]
            IN  IF Len(c) > MaxChunkRecords
                THEN Raise("RuntimeError") /\ files' = Rejected(files, c) /\ UNCHANGED wi
                ELSE IF Len(c) = 0
                     THEN Raise("IndexError") /\ UNCHANGED <<wi, files>>
                     ELSE /\ files' = PutFile(files, FileName(c), FileBytes(c))
                          /\ IF WrittenRecords(c) < Len(c)
                             THEN Raise("struct.error") /\ UNCHANGED wi
                             ELSE wi' = wi + 1 /\ UNCHANGED <<pc, error>>
       ELSE /\ pc' = "exported"
            /\ UNCHANGED <<error, wi, files>>
    /\ UNCHANGED <<inputVars, alignVars, divideVars, sleep_export_ran>>

(***************************************************************************)
(* __main__: the try block and its handlers                                *)
(***************************************************************************)
MainSleepExport ==
    /\ pc = "exported"
    /\ sleep_export_ran' = TRUE
    /\ pc' = "done"
    /\ UNCHANGED <<inputVars, error, alignVars, divideVars, wi, files>>

\* except Exception as e: _l.exception(...)
MainExcept ==
    /\ pc = "raised"
    /\ pc' = "done"
    /\ UNCHANGED <<inputVars, error, alignVars, divideVars, wi, files, sleep_export_ran>>

(***************************************************************************)
(* Inputs and specification                                                *)
(***************************************************************************)
InOrder(s) == \A k \in 1..(Len(s) - 1) : s[k][1] <= s[k + 1][1]

OrderedSeqs(S, n) == {s \in UNION {[1..k -> S] : k \in 0..n} : InOrder(s)}

\* the k-th row of a file carries its own value, so that a record tells which
\* sample its value came from: saturation values fall, heart rates rise
Falling(rows) == [k \in DOMAIN rows |-> <<rows[k][1], rows[k][2] - (k - 1)>>]

Rising(es) == [k \in DOMAIN es |-> <<es[k][1], es[k][2] + (k - 1)>>]

CsvInputs ==
    {<<>>} \cup {<<Falling(rows)>> : rows \in OrderedSeqs(CsvTimes \X RawValues, MaxCsvRows)}

JsonInputs ==
    {<<>>} \cup {<<Rising(es)>> : es \in OrderedSeqs(JsonTimes \X BpmValues, MaxJsonEntries)}

InitLocals ==
    /\ pc = "start"
    /\ error = None
    /\ ci = 0
    /\ ji = 0
    /\ sessions = <<>>
    /\ data = <<>>
    /\ prev_timestamp = None
    /\ last_bpm_timestamp = None
    /\ ret_sessions = <<>>
    /\ sorted_data = <<>>
    /\ chunks = <<>>
    /\ chunk = <<>>
    /\ si = 0
    /\ i = 0
    /\ last_timestamp = None
    /\ timestamp = 0
    /\ end_timestamp = 0
    /\ spo2 = None
    /\ bpm = None
    /\ records = 0
    /\ wi = 0
    /\ files = <<>>
    /\ sleep_export_ran = FALSE

\* one sample and one heart-rate entry far after it: a session of n records
LongInput(n) == << <<<<<<0, 97>>>>>>, <<<<<<0, 64>>, <<n * RecordSeconds, 64>>>>>> >>

\* sessions of exactly one chunk, of one record more, of two chunks and one record,
\* and of 20000 records
LongInputs == {LongInput(n) : n \in {MaxChunkRecords, MaxChunkRecords + 1,
                                      2 * MaxChunkRecords + 1, 20000}}

\* saturation samples at 00:00, 00:01 and 00:10
NightCsv == << <<<<0, 97>>, <<60, 96>>, <<600, 95>>>> >>

\* a heart-rate entry every minute from 00:00 to 00:15
MinuteJson == << [k \in 1..16 |-> <<60 * (k - 1), 63 + k>>] >>

\* heart-rate entries at 00:00 and 00:15 only
SparseJson == << <<<<0, 64>>, <<900, 65>>>> >>

NightInputs == {<<NightCsv, MinuteJson>>, <<NightCsv, SparseJson>>}

\* heart rates that do not fit a byte, in the first chunk of a run and in the second
UnpackableInputs ==
    {<< << <<<<0, 97>>, <<600, 96>>>> >>, << <<<<0, 256>>, <<1001, 64>>>> >> >>,
     << << <<<<0, 97>>, <<600, 96>>>> >>, << <<<<0, 64>>, <<300, -1>>, <<1001, 65>>>> >> >>}

\* saturation rows of 100 and of 101, the second five minutes after the first
OverfullInputs ==
    {<< << <<<<0, 100>>, <<300, 101>>>> >>, << <<<<0, 64>>, <<600, 65>>>> >> >>}

\* two sessions, the second with its first heart-rate sample half a minute after its start
CarryInputs ==
    {<< << <<<<0, 97>>, <<600, 96>>, <<660, 95>>>> >>,
        << <<<<0, 64>>, <<302, 65>>, <<630, 66>>, <<1001, 67>>>> >> >>}

Init ==
    /\ \/ csv_files \in CsvInputs /\ json_files \in JsonInputs
       \/ \E inp \in LongInputs \cup NightInputs \cup UnpackableInputs
                       \cup OverfullInputs \cup CarryInputs :
              csv_files = inp[1] /\ json_files = inp[2]
    /\ InitLocals

Next ==
    \/ ExportStart
    \/ AlignReadCsv
    \/ AlignAfterCsv
    \/ AlignReadJson
    \/ AlignReturn
    \/ DivideStart
    \/ DivideForSession
    \/ DivideForI
    \/ WriteChunk
    \/ MainSleepExport
    \/ MainExcept

Spec == Init /\ [][Next]_vars

(***************************************************************************)
(* write_to_viatom_file on its own: export_spo2_as_viatom hands it one     *)
(* chunk, drawn from the records the chunk generator can emit.             *)
(***************************************************************************)
\* saturation values that pass read_csv, on both sides of the two tests of the writer
WriterSpo2 == {61, 62, 99, 101}

\* heart rates on both sides of the two ends of a byte
WriterBpm == {-1, 0, 255, 256}

\* 00:00:00 on the first day and 02:03:04 on the second
WriterStarts == {0, 93784}

\* n records from start at the 4-second cadence, with the values of vs
Cadenced(start, vs) ==
    [k \in DOMAIN vs |-> <<start + RecordSeconds * (k - 1), vs[k][1], vs[k][2]>>]

ShortChunks ==
    {Cadenced(start, vs) :
        start \in WriterStarts,
        vs \in UNION {[1..n -> WriterSpo2 \X WriterBpm] : n \in 1..MaxWriterRecords}}

\* a full chunk, and a chunk of one record more than the writer accepts
LongChunks ==
    {Cadenced(0, [k \in 1..n |-> <<97, 64>>]) : n \in {MaxChunkRecords, MaxChunkRecords + 1}}

\* a chunk of one record, then a chunk of 4096 records that starts at the same second
RejectedCalls ==
    {<<Cadenced(0, <<<<97, 64>>>>),
       Cadenced(0, [k \in 1..(MaxChunkRecords + 1) |-> <<97, 64>>])>>}

InitWrite ==
    /\ csv_files = <<>>
    /\ json_files = <<>>
    /\ pc = "write"
    /\ error = None
    /\ ci = 0
    /\ ji = 0
    /\ sessions = <<>>
    /\ data = <<>>
    /\ prev_timestamp = None
    /\ last_bpm_timestamp = None
    /\ ret_sessions = <<>>
    /\ sorted_data = <<>>
    /\ chunks \in {<<c>> : c \in ShortChunks \cup LongChunks} \cup RejectedCalls
    /\ chunk = <<>>
    /\ si = 0
    /\ i = 0
    /\ last_timestamp = None
    /\ timestamp = 0
    /\ end_timestamp = 0
    /\ spo2 = None
    /\ bpm = None
    /\ records = 0
    /\ wi = 0
    /\ files = <<>>
    /\ sleep_export_ran = FALSE

NextWrite ==
    \/ WriteChunk
    \/ MainSleepExport
    \/ MainExcept

SpecWrite == InitWrite /\ [][NextWrite]_vars

\* the interpreter runs the one thread of the program whenever it has a next step
SpecFair == Spec /\ WF_vars(Next)

\* a run of the pipeline, or a call of write_to_viatom_file on its own
SpecRunOrWrite == (Init \/ InitWrite) /\ [][Next]_vars

(***************************************************************************)
(* Session segmentation (align_spo2_data, lines 127-142)                   *)
(***************************************************************************)
\* the saturation samples in the order align_spo2_data reads them
Samples == CsvStream(csv_files)

\* the loop over the saturation samples is over and the last session is closed
Segmented == pc \notin {"start", "read_csv"} /\ Len(sessions) > 0

\* the timestamp of the last saturation sample before instant t
LastSampleBefore(t) ==
    LET before == {Samples[j][1] : j \in {x \in 1..Len(Samples) : Samples[x][1] < t}}
    IN  CHOOSE m \in before : \A u \in before : u <= m

\* sample j is the first sample of a session
StartsSession(j) == \E k \in 1..Len(sessions) : sessions[k][1] = Samples[j][1]

C2_EndIsLastSampleOfSession ==
    Segmented =>
        \A k \in 1..Len(sessions) :
            sessions[k][2] = IF k < Len(sessions)
                             THEN LastSampleBefore(sessions[k + 1][1])
                             ELSE Samples[Len(Samples)][1]

\* C3: two consecutive saturation samples more than 5 minutes apart are never in the
\* same session: the later one is the start of a new session, the earlier one lies
\* before that start; so consecutive samples of one session are at most 5 minutes apart.
C3_GapSplitsSessions ==
    \A j \in 2..ci :
        Samples[j][1] - Samples[j - 1][1] > GapSeconds
            => \E k \in 2..Len(sessions) :
                   /\ sessions[k][1] = Samples[j][1]
                   /\ sessions[k - 1][1] <= Samples[j - 1][1]
                   /\ Samples[j - 1][1] < sessions[k][1]

C3_Witness ==
    /\ ci >= 3
    /\ Len(sessions) >= 2
    /\ \E j \in 2..ci : Samples[j][1] - Samples[j - 1][1] > GapSeconds
    /\ \E j \in 2..ci : Samples[j][1] - Samples[j - 1][1] = GapSeconds

\* a list of closed sessions is strictly ordered in time and free of overlap
StrictlyOrdered(ss) ==
    /\ \A k \in 1..Len(ss) : Len(ss[k]) = 2 /\ ss[k][1] <= ss[k][2]
    /\ \A k \in 1..(Len(ss) - 1) : ss[k][2] < ss[k + 1][1]

\* C4: the sessions of align_spo2_data never overlap and are strictly ordered:
\* start <= end in each, and each session ends strictly before the next one starts
\* (before and after the heart-rate filter).
C4_SessionsStrictlyOrdered ==
    Segmented => StrictlyOrdered(sessions) /\ StrictlyOrdered(ret_sessions)

C4_Witness ==
    /\ pc = "divide"
    /\ Len(sessions) >= 2
    /\ Len(ret_sessions) >= 2
    /\ sessions[Len(sessions)][1] < sessions[Len(sessions)][2]

(***************************************************************************)
(* Chunk generation (divide_data_to_viatom_chunks, lines 157-190)          *)
(***************************************************************************)
\* the returned session a record at instant t is generated for: the sessions start
\* at strictly increasing instants, and generation for a session starts at its start
SessionAt(t) ==
    CHOOSE s \in 1..Len(ret_sessions) :
        /\ ret_sessions[s][1] <= t
        /\ \A u \in 1..Len(ret_sessions) : ret_sessions[u][1] <= t => u <= s

FirstTime(c) == c[1][1]

LastTime(c) == c[Len(c)][1]

\* the flushed chunks of session s, by index
SessionChunks(s) == {k \in 1..Len(chunks) : SessionAt(FirstTime(chunks[k])) = s}

\* the records synthesized for session s, counted on the 4-second grid from its
\* first record to its last
SessionRecords(s) ==
    LET ks == SessionChunks(s)
        first == CHOOSE k \in ks : \A u \in ks : k <= u
        last == CHOOSE k \in ks : \A u \in ks : u <= k
    IN  IF ks = {} THEN 0
        ELSE (LastTime(chunks[last]) - FirstTime(chunks[first])) \div RecordSeconds + 1

CeilDiv(n, d) == (n + d - 1) \div d

\* C5: no record generated for a session has a timestamp before the session's start
\* or after the session's end.
C5_RecordsInsideSession ==
    (pc = "for_session" /\ si >= 1) =>
        \A k \in SessionChunks(si) :
            \A j \in 1..Len(chunks[k]) :
                /\ ret_sessions[si][1] <= chunks[k][j][1]
                /\ chunks[k][j][1] <= ret_sessions[si][2]

\* C6: every chunk appended to the output holds at least 1 and at most 4095 records.
C6_ChunkSizeBounds ==
    \A k \in 1..Len(chunks) : 1 <= Len(chunks[k]) /\ Len(chunks[k]) <= MaxChunkRecords

C6_Witness ==
    /\ pc = "write"
    /\ Len(chunks) >= 2
    /\ Len(chunks[1]) = MaxChunkRecords
    /\ Len(chunks[Len(chunks)]) = 1

\* C7: when a session is over, its N records are in exactly ceil(N / 4095) chunks,
\* each of 4095 records except the last, which holds the remaining
\* N - 4095 * (ceil(N / 4095) - 1) records.
C7_CeilingChunkCount ==
    (pc = "for_session" /\ si >= 1) =>
        LET ks == SessionChunks(si)
            n == Cardinality(ks)
            N == SessionRecords(si)
        IN  /\ n = CeilDiv(N, MaxChunkRecords)
            /\ \A k \in ks :
                   Len(chunks[k]) = IF k < Len(chunks)
                                    THEN MaxChunkRecords
                                    ELSE N - MaxChunkRecords * (n - 1)

\* 20000 records: four chunks of 4095 and one of 3620
C7_Witness ==
    /\ pc = "for_session"
    /\ si = 1
    /\ SessionRecords(1) = 20000
    /\ Len(chunks) = 5
    /\ \A k \in 1..4 : Len(chunks[k]) = 4095
    /\ Len(chunks[5]) = 3620

\* C8: two records emitted one after the other for the same session are exactly
\* 4 seconds apart, inside a chunk and from the last record of a chunk to the first
\* record of the session's next chunk.
C8_FourSecondCadence ==
    pc = "write" =>
        \A k \in 1..Len(chunks) :
            /\ \A j \in 2..Len(chunks[k]) :
                   chunks[k][j][1] - chunks[k][j - 1][1] = RecordSeconds
            /\ (k > 1 /\ SessionAt(FirstTime(chunks[k])) = SessionAt(FirstTime(chunks[k - 1])))
                   => FirstTime(chunks[k]) - LastTime(chunks[k - 1]) = RecordSeconds

C8_Witness ==
    /\ pc = "write"
    /\ Len(chunks) = 3
    /\ Len(ret_sessions) = 1
    /\ Len(chunks[3]) = 1

(***************************************************************************)
(* Heart-rate post-filter and the end of the run                           *)
(***************************************************************************)
Returned(session) == \E r \in 1..Len(ret_sessions) : ret_sessions[r] = session

\* C9: align_spo2_data returns exactly the sessions that end strictly before the last
\* heart-rate timestamp read, in their original order.
C9_FilterKeepsCoveredSessions ==
    pc = "divide" =>
        /\ \A k \in 1..Len(sessions) :
               Returned(sessions[k]) <=> sessions[k][2] < last_bpm_timestamp[1]
        /\ \A r \in 1..Len(ret_sessions) :
               \E k \in 1..Len(sessions) : sessions[k] = ret_sessions[r]
        /\ \A r \in 1..(Len(ret_sessions) - 1) : ret_sessions[r][1] < ret_sessions[r + 1][1]

C9_Witness ==
    /\ pc = "divide"
    /\ Len(ret_sessions) >= 1
    /\ \E k \in 1..Len(sessions) : sessions[k][2] = last_bpm_timestamp[1]

\* C10: when there are sessions and heart-rate samples but the filter keeps no
\* session, the run ends with the missing-data error.
C10_NoSurvivorIsFatal ==
    (/\ pc = "done"
     /\ Len(sessions) > 0
     /\ last_bpm_timestamp # None
     /\ ret_sessions = <<>>) => error = Some("FileNotFoundError")

(***************************************************************************)
(* Missing data (align_spo2_data, lines 139-149)                           *)
(***************************************************************************)
\* every row of every saturation file has a value that read_csv drops
NoSpo2Survives ==
    \A f \in 1..Len(csv_files) : \A r \in 1..Len(csv_files[f]) : csv_files[f][r][2] < 61

\* the heart-rate files hold no entry at all
NoHeartRateSample == \A f \in 1..Len(json_files) : Len(json_files[f]) = 0

\* align_spo2_data is called and finds no saturation sample or no heart-rate sample
MissingData ==
    /\ Len(csv_files) > 0
    /\ Len(json_files) > 0
    /\ NoSpo2Survives \/ NoHeartRateSample

\* C11: when no saturation sample survives ingestion, or no heart-rate sample exists,
\* align_spo2_data never returns (chunk generation and writing are never entered),
\* the run ends in FileNotFoundError, and no session is returned, no table is
\* handed on, no chunk is generated and no file is written.
C11_MissingDataWritesNothing ==
    MissingData =>
        /\ pc \in {"start", "read_csv", "read_json", "raised", "done"}
        /\ pc \in {"raised", "done"} => error = Some("FileNotFoundError")
        /\ ret_sessions = <<>>
        /\ sorted_data = <<>>
        /\ chunks = <<>>
        /\ chunk = <<>>
        /\ files = <<>>

C11_Witness ==
    /\ pc = "done"
    /\ MissingData
    /\ Len(sessions) > 0
    /\ NoHeartRateSample
    /\ error = Some("FileNotFoundError")

(***************************************************************************)
(* The bytes of a file (write_to_viatom_file, lines 199-233)               *)
(***************************************************************************)
\* the chunks that write_to_viatom_file has opened a file for
Opened == {k \in 1..Len(chunks) : FileName(chunks[k]) \in DOMAIN files}

FileOf(k) == files[FileName(chunks[k])]

\* byte b (1..5) of record j in a file, after the 40 bytes of the header
RecordByte(file, j, b) == file[40 + 5 * (j - 1) + b]

\* C12: no value of a record makes the write fail: for every heart rate, below 0 and
\* above 255 included, the five bytes of the record are written and the heart-rate
\* byte is the value truncated to one byte.
C12_EncodingNeverFails ==
    /\ error # Some("struct.error")
    /\ \A k \in Opened :
           /\ Len(FileOf(k)) = 40 + 5 * Len(chunks[k])
           /\ \A j \in 1..Len(chunks[k]) :
                  RecordByte(FileOf(k), j, 2) = chunks[k][j][3] % 256

\* the records of chunk k whose first byte is in the file
Begun(k) == {j \in 1..Len(chunks[k]) : 40 + 5 * (j - 1) + 1 <= Len(FileOf(k))}

\* the records of chunk k whose five bytes are in the file
Complete(k) == {j \in 1..Len(chunks[k]) : 40 + 5 * j <= Len(FileOf(k))}

\* C13: the saturation of every record is encoded by the clamp and sentinel rule:
\* a value of 61 or less gives 0xFF, heart rate, 0xFF, 0x00, 0x00; a value from 62
\* to 99 gives the value, heart rate, 0x00, 0x00, 0x00; a value above 99 gives 99,
\* heart rate, 0x00, 0x00, 0x00.
C13_ClampAndSentinel ==
    \A k \in Opened :
        /\ \A j \in Begun(k) :
               LET value == chunks[k][j][2]
               IN  RecordByte(FileOf(k), j, 1) =
                       IF value <= 61 THEN 255 ELSE IF value <= 99 THEN value ELSE 99
        /\ \A j \in Complete(k) :
               LET value == chunks[k][j][2]
                   tail == <<RecordByte(FileOf(k), j, 3), RecordByte(FileOf(k), j, 4),
                             RecordByte(FileOf(k), j, 5)>>
               IN  /\ RecordByte(FileOf(k), j, 2) = chunks[k][j][3]
                   /\ tail = IF value <= 61 THEN <<255, 0, 0>> ELSE <<0, 0, 0>>

C13_Witness ==
    /\ pc = "exported"
    /\ Opened = {1}
    /\ Complete(1) = {1, 2}
    /\ chunks[1][1][2] = 61
    /\ chunks[1][2][2] = 62
    /\ FileOf(1)[41] = 255
    /\ FileOf(1)[46] = 62

\* struct.unpack of the file-size field (bytes 10..13) and of the duration field
\* (bytes 14..15), least significant byte first
FileSizeField(file) == file[10] + 256 * file[11] + 65536 * file[12] + 16777216 * file[13]

DurationField(file) == file[14] + 256 * file[15]

\* C14: the file of a chunk of n records, 1 <= n <= 4095, is a header of 40 bytes and
\* 5 bytes per record: its length is 5n + 40 and is the value of its file-size field,
\* and its duration field is 4n.
C14_FileSizeAndDuration ==
    \A k \in Opened :
        LET n == Len(chunks[k])
        IN  /\ 1 <= n /\ n <= 4095
            /\ Len(FileOf(k)) = 5 * n + 40
            /\ FileSizeField(FileOf(k)) = Len(FileOf(k))
            /\ DurationField(FileOf(k)) = 4 * n

(***************************************************************************)
(* Forward fill (divide_data_to_viatom_chunks, lines 164-184)              *)
(***************************************************************************)
\* the chunks generated so far, the active one included
Generated == IF chunk = <<>> THEN chunks ELSE Append(chunks, chunk)

\* sample j of ss is the most recent saturation sample at or before instant t: the
\* samples are read in the order of their instants, and of two at one instant the
\* later wins
MostRecent(ss, j, t) ==
    /\ ss[j][1] <= t
    /\ j < Len(ss) => ss[j + 1][1] > t

\* chunk generation is over: it returned its chunks, or it raised
GenerationOver == pc = "raised" \/ (pc = "write" /\ wi = 0)

\* C15: every record carries the saturation of the most recent saturation sample at
\* or before the record's timestamp, and that sample is not older than the start of
\* the record's session.
C15_ForwardFillSpo2 ==
    GenerationOver =>
        LET ss == Samples
            cs == Generated
        IN  \A k \in 1..Len(cs) :
                LET start == IF k > Len(chunks)
                             THEN ret_sessions[si][1]
                             ELSE ret_sessions[SessionAt(FirstTime(cs[k]))][1]
                IN  \A j \in 1..Len(cs[k]) :
                        LET record == cs[k][j]
                        IN  /\ \E x \in 1..Len(ss) : MostRecent(ss, x, record[1])
                            /\ \A x \in 1..Len(ss) :
                                   MostRecent(ss, x, record[1]) =>
                                       /\ record[2] = ss[x][2]
                                       /\ ss[x][1] >= start

\* a session whose records carry two saturations, the second taken over at its sample
C15_Witness ==
    /\ pc = "write"
    /\ Len(chunks) >= 1
    /\ \E j \in 2..Len(chunks[1]) :
           /\ chunks[1][j][2] # chunks[1][j - 1][2]
           /\ chunks[1][j][1] - ret_sessions[1][1] > RecordSeconds
           /\ \E x \in 1..Len(Samples) : Samples[x] = <<chunks[1][j][1], chunks[1][j][2]>>

(***************************************************************************)
(* A night of three samples                                                *)
(***************************************************************************)
\* saturation samples at 00:00, 00:01 and 00:10, heart-rate samples up to 00:15
NightRun == \E inp \in NightInputs : csv_files = inp[1] /\ json_files = inp[2]

\* C16: with saturation samples at 00:00, 00:01 and 00:10 and heart-rate samples up to
\* 00:15 the sessions are [00:00, 00:01] and [00:10, 00:10], and each gives one chunk:
\* 15 records at 4-second spacing for the first and 1 record for the second.
C16_NightOfTwoSessions ==
    (NightRun /\ pc = "write") =>
        /\ ret_sessions = <<<<0, 60>>, <<600, 600>>>>
        /\ Len(chunks) = 2
        /\ Len(chunks[1]) = 15
        /\ Len(chunks[2]) = 1
        /\ \A j \in 1..Len(chunks[1]) : chunks[1][j][1] = RecordSeconds * (j - 1)
        /\ chunks[2][1][1] = 600

(***************************************************************************)
(* The two exports of a run (__main__, lines 444-459)                      *)
(***************************************************************************)
\* C17: a run whose SpO2 export raised the missing-data error still executes the
\* sleep-phase export.
C17_SleepExportStillRuns ==
    (pc = "done" /\ error = Some("FileNotFoundError")) => sleep_export_ran

(***************************************************************************)
(* One file per chunk (export_spo2_as_viatom, lines 42-43, and line 198)   *)
(***************************************************************************)
\* the chunks write_to_viatom_file has returned from
Written == 1..wi

\* C18: every chunk that was written has its own file, named after the timestamp of
\* its first record, and the file still holds that chunk after the later chunks were
\* written; no two chunks of a run have the same first timestamp or the same file
\* name, and there are as many files as chunks the writer opened a file for.
C18_OneFilePerChunk ==
    /\ \A a, b \in 1..Len(chunks) :
           a # b => /\ FirstTime(chunks[a]) # FirstTime(chunks[b])
                    /\ FileName(chunks[a]) # FileName(chunks[b])
    /\ \A k \in Written :
           /\ FileName(chunks[k]) \in DOMAIN files
           /\ SubSeq(FileOf(k), 3, 9) = SubSeq(Header(chunks[k]), 3, 9)
           /\ Len(FileOf(k)) = 40 + 5 * Len(chunks[k])
    /\ Cardinality(DOMAIN files) = Cardinality(Opened)
    /\ Written \subseteq Opened
    /\ Cardinality(Opened) <= wi + 1

C18_Witness ==
    /\ pc = "exported"
    /\ Len(ret_sessions) >= 2
    /\ Len(chunks) >= 2
    /\ wi = Len(chunks)
    /\ Cardinality(DOMAIN files) = Len(chunks)

(***************************************************************************)
(* Sessions and their chunks (divide_data_to_viatom_chunks, lines 159-190) *)
(***************************************************************************)
\* C19: every retained session produces at least one chunk, and the first record of
\* the first chunk of the session is at session.start.
C19_EverySessionHasAChunk ==
    (pc = "done" /\ Len(csv_files) > 0 /\ Len(json_files) > 0) =>
        \A s \in 1..Len(ret_sessions) :
            /\ SessionChunks(s) # {}
            /\ \E k \in SessionChunks(s) :
                   /\ FirstTime(chunks[k]) = ret_sessions[s][1]
                   /\ \A u \in SessionChunks(s) : k <= u

\* C20: no chunk holds records of two sessions: the active chunk is empty when a
\* session begins, the records of the active chunk are all of the current session,
\* and the records of every flushed chunk are all of one session; a session may have
\* several chunks.
C20_NoChunkSpansSessions ==
    /\ pc = "for_session" => chunk = <<>>
    /\ (pc = "for_i" /\ i = 0) => chunk = <<>>
    /\ (pc = "for_i" /\ chunk # <<>>) =>
           /\ SessionAt(FirstTime(chunk)) = si
           /\ SessionAt(LastTime(chunk)) = si
    /\ \A k \in 1..Len(chunks) :
           /\ SessionAt(FirstTime(chunks[k])) = SessionAt(LastTime(chunks[k]))
           /\ SessionAt(FirstTime(chunks[k])) <= si

\* two sessions have been generated, each into a chunk of its own
C20_Witness ==
    /\ pc = "write"
    /\ Len(ret_sessions) = 2
    /\ Len(chunks) = 2
    /\ SessionChunks(1) = {1}
    /\ SessionChunks(2) = {2}
    /\ Len(chunks[1]) > 1
    /\ Len(chunks[2]) > 1

(***************************************************************************)
(* The merged table (align_spo2_data, lines 125-147)                       *)
(***************************************************************************)
\* the heart-rate samples in the order align_spo2_data reads them
HeartRates == JsonStream(json_files)

\* the instants of the first n samples of a stream
Instants(stream, n) == {stream[j][1] : j \in 1..n}

\* C21: the keys of the merged table are exactly the instants of the saturation
\* samples and of the heart-rate samples merged so far (all of them after the merge),
\* a slot holds a value exactly when its stream has a sample at that instant, and no
\* entry is [absent, absent].
C21_TableIsUnionOfInstants ==
    LET ss == Samples
        hs == HeartRates
    IN  /\ DOMAIN data = Instants(ss, ci) \cup Instants(hs, ji)
        /\ \A t \in DOMAIN data :
               /\ data[t][1] # None <=> t \in Instants(ss, ci)
               /\ data[t][2] # None <=> t \in Instants(hs, ji)
               /\ data[t] # <<None, None>>
        /\ pc = "divide" => ci = Len(ss) /\ ji = Len(hs)

\* after the merge the table has an entry of both streams and one of each stream alone
C21_Witness ==
    /\ pc = "divide"
    /\ \E t \in DOMAIN data : data[t][1] # None /\ data[t][2] # None
    /\ \E t \in DOMAIN data : data[t][1] # None /\ data[t][2] = None
    /\ \E t \in DOMAIN data : data[t][1] = None /\ data[t][2] # None

\* the slot of instant t for metric k in table d, absent when d has no entry at t
Slot(d, t, k) == IF t \in DOMAIN d THEN d[t][k] ELSE None

\* the step from data to data' recorded value v of metric k at instant t and nothing else
RecordsOnly(t, k, v) ==
    /\ DOMAIN data' = DOMAIN data \cup {t}
    /\ data'[t][k] = Some(v)
    /\ data'[t][3 - k] = Slot(data, t, 3 - k)
    /\ \A u \in DOMAIN data : u # t => data'[u] = data[u]

\* C22: recording a sample changes only the slot of its metric at its own instant: the
\* slot of the other metric at that instant and the entries of all other instants stay
\* as they were, and an absent slot stays absent.
C22_MergeFrame ==
    [][/\ (pc = "read_csv" /\ ci' = ci + 1)
           => RecordsOnly(Samples[ci + 1][1], 1, Samples[ci + 1][2])
       /\ (pc = "read_json" /\ ji' = ji + 1)
           => RecordsOnly(HeartRates[ji + 1][1], 2, HeartRates[ji + 1][2])
       /\ pc \notin {"read_csv", "read_json"} => data' = data]_vars

\* a heart-rate sample has been recorded at the instant of a saturation sample, beside
\* an entry that holds a saturation alone
C22_Witness ==
    /\ pc = "read_json"
    /\ ji >= 1
    /\ data[HeartRates[ji][1]][1] # None
    /\ data[HeartRates[ji][1]][2] = Some(HeartRates[ji][2])
    /\ \E u \in DOMAIN data : data[u][1] # None /\ data[u][2] = None

(***************************************************************************)
(* The range of the saturations (read_csv, lines 103-107)                  *)
(***************************************************************************)
\* C23: every saturation in the merged table, and so in every record, lies in
\* [61, 99]: the test of the writer for a saturation above 99 is never needed.
C23_Spo2Within61And99 ==
    /\ \A t \in DOMAIN data :
           data[t][1] # None => 61 <= data[t][1][1] /\ data[t][1][1] <= 99
    /\ \A k \in 1..Len(chunks) :
           \A j \in 1..Len(chunks[k]) : 61 <= chunks[k][j][2] /\ chunks[k][j][2] <= 99

(***************************************************************************)
(* The precondition of the writer (write_to_viatom_file, lines 194-197)    *)
(***************************************************************************)
\* the chunks were generated by divide_data_to_viatom_chunks in this run
PipelineRun == Len(csv_files) > 0 /\ Len(json_files) > 0

\* C24: a call of write_to_viatom_file with more than 4095 records raises RuntimeError
\* and leaves the export directory as it was: the files are those of the chunks
\* written before, each still whole, and no chunk of more than 4095 records is ever
\* written.  In a run of the pipeline the error never occurs, since every generated
\* chunk has at most 4095 records.
C24_OversizeChunkRejected ==
    /\ error = Some("RuntimeError") =>
           /\ wi < Len(chunks)
           /\ Len(chunks[wi + 1]) > 4095
           /\ DOMAIN files = {FileName(chunks[k]) : k \in Written}
    /\ \A k \in Written :
           /\ Len(chunks[k]) <= 4095
           /\ Len(FileOf(k)) = 40 + 5 * Len(chunks[k])
    /\ PipelineRun =>
           /\ error # Some("RuntimeError")
           /\ \A k \in 1..Len(chunks) : Len(chunks[k]) <= 4095

\* the second call raised, and the file of the first call, of the same name, is whole
C24_Witness ==
    /\ error = Some("RuntimeError")
    /\ wi = 1
    /\ Len(chunks[2]) = 4096
    /\ FileName(chunks[2]) = FileName(chunks[1])
    /\ Len(FileOf(1)) = 45

(***************************************************************************)
(* Generation and writing (export_spo2_as_viatom, lines 40-43)             *)
(***************************************************************************)
\* chunk k is complete and a record of a later chunk has been generated
Overtaken(k) == k < Len(chunks) \/ chunk # <<>>

\* C25: a chunk is written to its file as soon as it is complete, before any record of
\* a later chunk is generated.
C25_ChunksWrittenAsProduced ==
    \A k \in 1..Len(chunks) : Overtaken(k) => FileName(chunks[k]) \in DOMAIN files

(***************************************************************************)
(* Running values across sessions (divide_data_to_viatom_chunks, 161-175)  *)
(***************************************************************************)
\* C26: the running heart rate is not bound to a session: every record carries the
\* heart rate of the most recent heart-rate sample at or before its timestamp, also
\* when that sample is older than the start of the record's session; and generation
\* stops on a value that was never assigned only in a session that no heart-rate
\* sample precedes or starts.
C26_HeartRateCarriedAcrossSessions ==
    LET hs == HeartRates
        cs == Generated
    IN  /\ GenerationOver =>
               \A k \in 1..Len(cs) :
                   \A j \in 1..Len(cs[k]) :
                       /\ \E x \in 1..Len(hs) : MostRecent(hs, x, cs[k][j][1])
                       /\ \A x \in 1..Len(hs) :
                              MostRecent(hs, x, cs[k][j][1]) => cs[k][j][3] = hs[x][2]
        /\ error = Some("UnboundLocalError") =>
               \A x \in 1..Len(hs) : hs[x][1] > ret_sessions[si][1]

\* the second session starts at an instant without a heart-rate sample: its first
\* record carries the heart rate of a sample older than the session, and a later
\* record of the session carries that of a sample within it
C26_Witness ==
    /\ pc = "write"
    /\ Len(ret_sessions) >= 2
    /\ \E k \in SessionChunks(2) :
           /\ FirstTime(chunks[k]) = ret_sessions[2][1]
           /\ data[FirstTime(chunks[k])][2] = None
           /\ \E x \in 1..Len(HeartRates) :
                  /\ HeartRates[x][1] < ret_sessions[2][1]
                  /\ HeartRates[x][2] = chunks[k][1][3]
           /\ \E j \in 2..Len(chunks[k]) :
                  /\ chunks[k][j][3] # chunks[k][1][3]
                  /\ \E x \in 1..Len(HeartRates) :
                         /\ HeartRates[x][1] >= ret_sessions[2][1]
                         /\ HeartRates[x][2] = chunks[k][j][3]

\* C27: chunk generation never reads a running value that no sample has assigned:
\* it never stops in UnboundLocalError, and every record carries a saturation and a
\* heart rate that samples at or before its timestamp have set.
C27_RunningValuesAssigned ==
    /\ error # Some("UnboundLocalError")
    /\ \A k \in 1..Len(chunks) :
           \A j \in 1..Len(chunks[k]) :
               /\ \E x \in 1..Len(Samples) : Samples[x][1] <= chunks[k][j][1]
               /\ \E x \in 1..Len(HeartRates) : HeartRates[x][1] <= chunks[k][j][1]

(***************************************************************************)
(* Termination (divide_data_to_viatom_chunks, lines 161-190)               *)
(***************************************************************************)
\* the timestamp the iteration of the loop over the table starts from, lines 164-167
IterationStart ==
    IF last_timestamp = None THEN sorted_data[i + 1][1] ELSE last_timestamp[1]

\* the step is an iteration of the loop over the table
Iterates == pc = "for_i" /\ i' = i + 1

\* the records in the chunks and in the active chunk
RecordCount(cs, c) ==
    LET RECURSIVE Sum(_)
        Sum(k) == IF k = 0 THEN 0 ELSE Len(cs[k]) + Sum(k - 1)
    IN  Sum(Len(cs)) + Len(c)

\* C28: divide_data_to_viatom_chunks terminates: once called it returns or raises.
\* An iteration that emits records moves the timestamp in steps of 4 seconds from its
\* start to the first instant at or after the next real timestamp, one record per
\* step; an iteration whose start is after session.end emits no record, and no record
\* is emitted at a position after session.end.
C28_ChunkGenerationTerminates ==
    /\ (pc = "divide") ~> (pc \in {"write", "raised"})
    /\ [][Iterates =>
              IF OutsideSession(IterationStart, CurrentSession)
              THEN chunks' = chunks /\ chunk' = chunk /\ last_timestamp' = last_timestamp
              ELSE /\ last_timestamp' = Some(timestamp')
                   /\ timestamp' = IterationStart + RecordSeconds * records'
                   /\ records' = RecordCount(chunks', chunk') - RecordCount(chunks, chunk)
                   /\ timestamp' >= end_timestamp'
                   /\ records' > 0 => timestamp' - RecordSeconds < end_timestamp']_vars
    /\ [][Iterates /\ (chunks' # chunks \/ chunk' # chunk)
              => timestamp' - RecordSeconds <= CurrentSession[2]]_vars

====
